---------------------------- MODULE Spec2Model ----------------------------
(***************************************************************************)
(* Model of the deployment and test parts of 05_DeployOnIOTedge.ipynb:    *)
(* the deployment descriptor templating cell, the push of the descriptor,  *)
(* the container discovery poll (get_id and its while loop), the attach    *)
(* call, the readiness wait loop over the container's log stream, and the  *)
(* scoring cells that post texts to the module and decode its answers.     *)
(*                                                                         *)
(* Text is modelled as a sequence of one-character strings, so that        *)
(* str.replace and the "in" substring test are computed character by       *)
(* character as Python computes them.                                      *)
(***************************************************************************)
EXTENDS Integers, Sequences, FiniteSets, TLC

(***************************************************************************)
(* Bounds of the model.                                                    *)
(***************************************************************************)
MaxPieces ==
    2
MaxContainers ==
    2
MaxDevice ==
    1
MaxAttempts ==
    2
MaxLines ==
    2
MaxTriples ==
    4
MaxWait ==
    2

(***************************************************************************)
(* The placeholder tokens of the templating cell (notebook lines 594-598). *)
(***************************************************************************)
TOK_MODULE_NAME ==
    <<"_", "_", "M", "O", "D", "U", "L", "E", "_", "N", "A", "M", "E">>
TOK_REGISTRY_NAME ==
    <<"_", "_", "R", "E", "G", "I", "S", "T", "R", "Y", "_", "N", "A", "M", "E">>
TOK_REGISTRY_USER_NAME ==
    <<"_", "_", "R", "E", "G", "I", "S", "T", "R", "Y", "_", "U", "S", "E", "R", "_", "N", "A", "M", "E">>
TOK_REGISTRY_PASSWORD ==
    <<"_", "_", "R", "E", "G", "I", "S", "T", "R", "Y", "_", "P", "A", "S", "S", "W", "O", "R", "D">>
TOK_REGISTRY_IMAGE_LOCATION ==
    <<"_", "_", "R", "E", "G", "I", "S", "T", "R", "Y", "_", "I", "M", "A", "G", "E", "_", "L", "O", "C", "A", "T", "I", "O", "N">>

Tokens ==
    <<TOK_MODULE_NAME, TOK_REGISTRY_NAME, TOK_REGISTRY_USER_NAME,
      TOK_REGISTRY_PASSWORD, TOK_REGISTRY_IMAGE_LOCATION>>

(* The readiness marker tested by the wait loop (notebook line 681). *)
Marker ==
    <<"O", "p", "e", "n", "e", "d", " ", "m", "o", "d", "u", "l", "e", " ",
      "c", "l", "i", "e", "n", "t", " ", "c", "o", "n", "n", "e", "c", "t",
      "i", "o", "n">>

(* Python's None. *)
None ==
    "None"

(* Content of a file that does not exist. *)
NoFile ==
    <<"<no file>">>

(***************************************************************************)
(* Python string primitives.                                               *)
(***************************************************************************)

(* sub in s *)
Contains(sub, s) ==
    \E i \in 1..(Len(s) - Len(sub) + 1) : SubSeq(s, i, i + Len(sub) - 1) = sub

(* s.find(old, i): the least position at or after i where old occurs, 0   *)
(* when there is none (positions count from 1).                           *)
Find(s, old, i) ==
    LET occ == {j \in i..(Len(s) - Len(old) + 1) :
                   SubSeq(s, j, j + Len(old) - 1) = old}
    IN  IF occ = {} THEN 0 ELSE CHOOSE j \in occ : \A k \in occ : j <= k

(* s.replace(old, new) for a non-empty old: one left-to-right pass that   *)
(* replaces every non-overlapping occurrence; inserted text is not        *)
(* rescanned.                                                             *)
RECURSIVE ReplaceFrom(_, _, _, _)
ReplaceFrom(s, old, new, i) ==
    LET j == Find(s, old, i)
    IN  IF j = 0
        THEN SubSeq(s, i, Len(s))
        ELSE SubSeq(s, i, j - 1) \o new
               \o ReplaceFrom(s, old, new, j + Len(old))

Replace(s, old, new) ==
    ReplaceFrom(s, old, new, 1)

(* bytes.decode('utf-8') on a well-formed chunk: an ASCII byte is its     *)
(* character, the two-byte sequence C3 A9 is the single character e-acute. *)
RECURSIVE decode(_)
decode(l) ==
    IF l = <<>>
    THEN <<>>
    ELSE IF Len(l) >= 2 /\ l[1] = "xC3" /\ l[2] = "xA9"
         THEN <<"e'">> \o decode(SubSeq(l, 3, Len(l)))
         ELSE <<l[1]>> \o decode(Tail(l))

(***************************************************************************)
(* get_id (notebook lines 642-647): scan the listing in order, test the    *)
(* target against the first entry of the record's Names, return the Id of  *)
(* the first hit, None when the scan ends.  cont['Names'][0] on an empty   *)
(* list raises IndexError, which nothing in get_id catches: the call ends  *)
(* there with the exception.                                               *)
(***************************************************************************)
IndexError ==
    "IndexError"

RECURSIVE get_id_scan(_, _, _)
get_id_scan(listing, container_name, i) ==
    IF i > Len(listing)
    THEN None
    ELSE IF listing[i].Names = <<>>
         THEN IndexError
         ELSE IF Contains(container_name, listing[i].Names[1])
              THEN listing[i].Id
              ELSE get_id_scan(listing, container_name, i + 1)

(* A scan that keeps the last hit instead of returning at the first. *)
get_id_last(listing, container_name) ==
    LET hits == {i \in DOMAIN listing :
                    Contains(container_name, listing[i].Names[1])}
    IN  IF hits = {} THEN None
        ELSE listing[CHOOSE i \in hits : \A k \in hits : k <= i].Id

(* A scan that tests the target against every name of a record. *)
get_id_anyname(listing, container_name) ==
    LET hits == {i \in DOMAIN listing :
                    \E n \in DOMAIN listing[i].Names :
                        Contains(container_name, listing[i].Names[n])}
    IN  IF hits = {} THEN None
        ELSE listing[CHOOSE i \in hits : \A k \in hits : i <= k].Id

get_id(listing, container_name) ==
    get_id_scan(listing, container_name, 1)

(***************************************************************************)
(* Input universes: texts the cells can meet.                              *)
(***************************************************************************)
ExampleTemplate ==
    <<"{", "\"", "n", "a", "m", "e", "\"", ":", "\"", "_", "_", "M", "O",
    "D", "U", "L", "E", "_", "N", "A", "M", "E", "\"", "}">>
S_MODULE_ ==
    <<"_", "_", "M", "O", "D", "U", "L", "E", "_">>
S_mymodule ==
    <<"m", "y", "m", "o", "d", "u", "l", "e">>
S_edge ==
    <<"e", "d", "g", "e">>
S_db ==
    <<"d", "b">>
S_reg ==
    <<"r", "e", "g">>
S_NAME ==
    <<"N", "A", "M", "E">>
S_usr ==
    <<"u", "s", "r">>
S_pw ==
    <<"p", "w">>
S_img ==
    <<"i", "m", "g">>
S_old ==
    <<"o", "l", "d">>
N_edgeAgent ==
    <<"/", "e", "d", "g", "e", "A", "g", "e", "n", "t">>
N_edgeHub ==
    <<"/", "e", "d", "g", "e", "H", "u", "b">>
N_mymodule_1 ==
    <<"/", "m", "y", "m", "o", "d", "u", "l", "e", "_", "1">>
N_web_db ==
    <<"/", "w", "e", "b", "/", "d", "b">>
N_mymodule ==
    <<"/", "m", "y", "m", "o", "d", "u", "l", "e">>
L_tf ==
    <<"U", "s", "i", "n", "g", " ", "T", "e", "n", "s", "o", "r", "F", "l",
    "o", "w", " ", "b", "a", "c", "k", "e", "n", "d", ".">>
L_opened ==
    <<"I", "o", "T", "H", "u", "b", "C", "l", "i", "e", "n", "t", ":", " ",
    "O", "p", "e", "n", "e", "d", " ", "m", "o", "d", "u", "l", "e", " ", "c",
    "l", "i", "e", "n", "t", " ", "c", "o", "n", "n", "e", "c", "t", "i", "o",
    "n">>
L_demarre ==
    <<"d", "xC3", "xA9", "m", "a", "r", "r", "xC3", "xA9">>

(* A template that carries every placeholder once. *)
Skeleton ==
    TOK_MODULE_NAME \o <<";">> \o TOK_REGISTRY_NAME \o <<";">>
      \o TOK_REGISTRY_USER_NAME \o <<";">> \o TOK_REGISTRY_PASSWORD
      \o <<";">> \o TOK_REGISTRY_IMAGE_LOCATION

(* Templates are concatenations of at most MaxPieces of these pieces. *)
Pieces ==
    {Skeleton, ExampleTemplate, S_MODULE_, TOK_MODULE_NAME,
     TOK_REGISTRY_NAME, TOK_REGISTRY_USER_NAME, TOK_REGISTRY_PASSWORD,
     TOK_REGISTRY_IMAGE_LOCATION}

RECURSIVE Concat(_)
Concat(ps) ==
    IF ps = <<>> THEN <<>> ELSE Head(ps) \o Concat(Tail(ps))

SeqsUpTo(S, n) ==
    UNION {[1..k -> S] : k \in 0..n}

Templates ==
    {Concat(ps) : ps \in SeqsUpTo(Pieces, MaxPieces)}

(* Values of the substituted variables; some spell placeholder text. *)
ModuleNames ==
    {S_mymodule, TOK_REGISTRY_NAME}
RegNames ==
    {S_reg, S_NAME}
UserNames ==
    {S_usr}
Passwords ==
    {S_pw, TOK_MODULE_NAME}
ImageLocations ==
    {S_img}

(* Records of docker_client.containers(): running containers, each with   *)
(* at least one name; a linked container carries its aliases as well.     *)
R_edgeAgent ==
    [Names |-> <<N_edgeAgent>>, Id |-> "a1"]
R_mymodule_1 ==
    [Names |-> <<N_mymodule_1>>, Id |-> "b2"]
R_linked ==
    [Names |-> <<N_web_db, N_mymodule>>, Id |-> "c3"]
R_edgeHub ==
    [Names |-> <<N_edgeHub>>, Id |-> "d4"]

Records ==
    {R_edgeAgent, R_mymodule_1, R_linked, R_edgeHub}

Ids ==
    {r.Id : r \in Records}

(* Listings: sequences of distinct records. *)
Listings ==
    {l \in SeqsUpTo(Records, MaxContainers) :
        \A i, j \in DOMAIN l : i # j => l[i] # l[j]}

(* The containers of the edge device in a whole run: the runtime's own    *)
(* agent, the module, and a linked container that carries the module's   *)
(* name as its second name.                                              *)
DeviceRecords ==
    {R_edgeAgent, R_mymodule_1, R_linked}

DeviceListings ==
    {l \in SeqsUpTo(DeviceRecords, MaxDevice) :
        \A i, j \in DOMAIN l : i # j => l[i] # l[j]}

Targets ==
    {S_mymodule, S_edge, S_db}

(* Triples the service ranks, and the lists it answers with: in any      *)
(* order, the client is told nothing about it.                           *)
T_high ==
    <<11922383, 11922384, [tenths |-> 9]>>
T_tie ==
    <<5223, 6700, [tenths |-> 9]>>
T_low ==
    <<40, 7, [tenths |-> 2]>>

Triples ==
    {T_high, T_tie, T_low}

Rankings ==
    SeqsUpTo(Triples, MaxTriples)

(* A record whose Names list is empty: get_id takes any list of records, *)
(* and nothing in it tests the list before indexing it.                  *)
R_noname ==
    [Names |-> <<>>, Id |-> "e5"]

AnyRecords ==
    Records \cup {R_noname}

AnyListings ==
    {l \in SeqsUpTo(AnyRecords, MaxContainers) :
        \A i, j \in DOMAIN l : i # j => l[i] # l[j]}

(* Chunks the attached stream can deliver (bytes, well-formed UTF-8). *)
Lines ==
    {L_demarre, L_tf, L_opened}

VARIABLES
    pc,              \* position in the notebook: the cell or loop step to run next
    template,        \* content of MLmodule_deployment_template.json
    module_name, reg_name, username, password, image_location,
    contents,        \* the notebook variable contents
    deployment_json, \* content of ./deployment.json
    az_result,       \* outcome of the az iot edge set-modules command
    pushed,          \* deployment content held by the IoT Hub for the device
    containers,      \* what docker_client.containers() returns now
    d_id,            \* the notebook variable d_id
    attempts,        \* number of get_id calls made so far (saturates at MaxAttempts)
    slept,           \* a time.sleep(1) has completed since the last get_id call
    logs,            \* the attach generator: None, or the container it is attached to
    produced,        \* chunks the container has written to its output so far
    stream_open,     \* the container's output stream has not been closed
    consumed,        \* number of chunks the for loop has taken from logs
    msg,             \* the notebook variable msg
    stdout,          \* what the print calls of the cells have written
    waited,          \* seconds spent blocked in the wait loop (saturates at MaxWait)
    overwrote,       \* open('./deployment.json', 'wt') truncated an existing file
    error,           \* the exception that stopped the run, or None
    ranking,         \* the list of triples the scoring service computes for a text
    response,        \* the notebook variable response: the body received, or None
    prediction,      \* the notebook variable prediction
    acc,             \* the list the comprehension of lines 795-799 has built so far
    results,         \* the notebook variable results
    top3,            \* the value of the cell of line 815
    posted           \* the POST requests the scoring endpoint has received

vars ==
    <<pc, template, module_name, reg_name, username, password, image_location,
      contents, deployment_json, az_result, pushed, containers, d_id,
      attempts, slept, logs, produced, stream_open, consumed, msg, stdout,
      waited, overwrote, error, ranking, response, prediction, acc, results,
      top3, posted>>

tmplVars ==
    <<template, module_name, reg_name, username, password, image_location>>
pollVars ==
    <<d_id, attempts, slept>>
logVars ==
    <<logs, produced, stream_open, consumed, msg, stdout, waited>>
scoreVars ==
    <<ranking, response, prediction, acc, results, top3, posted>>

(***************************************************************************)
(* Initial states.  InitCommon is the state before the templating cell:    *)
(* nothing pushed, nothing discovered, nothing attached.  A first run      *)
(* finds no ./deployment.json; the templating cell is also run over one    *)
(* left by an earlier run.                                                 *)
(***************************************************************************)
InitCommon ==
    /\ contents = S_old
    /\ az_result = "not_run"
    /\ pushed = NoFile
    /\ d_id = None
    /\ attempts = 0
    /\ slept = FALSE
    /\ logs = None
    /\ produced = <<>>
    /\ stream_open = TRUE
    /\ consumed = 0
    /\ msg = <<>>
    /\ stdout = <<>>
    /\ waited = 0
    /\ overwrote = FALSE
    /\ error = None
    /\ response = None
    /\ prediction = None
    /\ acc = <<>>
    /\ results = None
    /\ top3 = None
    /\ posted = <<>>

(* A whole run of the deployment cells. *)
Init ==
    /\ pc = "template"
    /\ template = Skeleton
    /\ module_name = S_mymodule
    /\ reg_name = S_reg
    /\ username = S_usr
    /\ password = S_pw
    /\ image_location = S_img
    /\ containers \in DeviceListings
    /\ deployment_json = NoFile
    /\ ranking = <<>>
    /\ InitCommon

(* The templating cell over every template and value of the universes. *)
InitTmpl ==
    /\ pc = "template"
    /\ template \in Templates
    /\ module_name \in ModuleNames
    /\ reg_name \in RegNames
    /\ username \in UserNames
    /\ password \in Passwords
    /\ image_location \in ImageLocations
    /\ containers = <<>>
    /\ deployment_json \in {NoFile, S_old}
    /\ ranking = <<>>
    /\ InitCommon

(* One get_id call over every listing and target of the universes. *)
InitGetId ==
    /\ pc = "poll_first"
    /\ template = Skeleton
    /\ module_name \in Targets
    /\ reg_name = S_reg
    /\ username = S_usr
    /\ password = S_pw
    /\ image_location = S_img
    /\ containers \in Listings
    /\ deployment_json = NoFile
    /\ ranking = <<>>
    /\ InitCommon

(* One get_id call over listings whose records can have no name. *)
InitGetIdAny ==
    /\ pc = "poll_first"
    /\ template = Skeleton
    /\ module_name \in Targets
    /\ reg_name = S_reg
    /\ username = S_usr
    /\ password = S_pw
    /\ image_location = S_img
    /\ containers \in AnyListings
    /\ deployment_json = NoFile
    /\ ranking = <<>>
    /\ InitCommon

(* The scoring cells over every ranking the service can answer with. *)
InitScore ==
    /\ pc = "post"
    /\ template = Skeleton
    /\ module_name = S_mymodule
    /\ reg_name = S_reg
    /\ username = S_usr
    /\ password = S_pw
    /\ image_location = S_img
    /\ containers = <<>>
    /\ deployment_json = NoFile
    /\ ranking \in Rankings
    /\ InitCommon

(***************************************************************************)
(* The cells.                                                              *)
(***************************************************************************)

(* Lines 594-598: the five replace calls, chained in the order of the     *)
(* source.                                                                *)
Templated(t, m, r, u, p, i) ==
    Replace(Replace(Replace(Replace(Replace(t,
        TOK_MODULE_NAME, m),
        TOK_REGISTRY_NAME, r),
        TOK_REGISTRY_USER_NAME, u),
        TOK_REGISTRY_PASSWORD, p),
        TOK_REGISTRY_IMAGE_LOCATION, i)

(* The cell without its last two lines: the output file is not written. *)
TemplatingCell_nowrite ==
    /\ pc = "template"
    /\ \E c1 \in {Replace(template, TOK_MODULE_NAME, module_name)} :
       \E c2 \in {Replace(c1, TOK_REGISTRY_NAME, reg_name)} :
       \E c3 \in {Replace(c2, TOK_REGISTRY_USER_NAME, username)} :
       \E c4 \in {Replace(c3, TOK_REGISTRY_PASSWORD, password)} :
       \E c5 \in {Replace(c4, TOK_REGISTRY_IMAGE_LOCATION, image_location)} :
          contents' = c5
    /\ overwrote' = overwrote
    /\ pc' = "push"
    /\ UNCHANGED <<tmplVars, error, scoreVars, deployment_json, az_result, pushed, containers, pollVars, logVars>>

(* The cell with its output file opened in mode 'at': the document is    *)
(* written after what the file already holds.                            *)
TemplatingCell_append ==
    /\ pc = "template"
    /\ \E c1 \in {Replace(template, TOK_MODULE_NAME, module_name)} :
       \E c2 \in {Replace(c1, TOK_REGISTRY_NAME, reg_name)} :
       \E c3 \in {Replace(c2, TOK_REGISTRY_USER_NAME, username)} :
       \E c4 \in {Replace(c3, TOK_REGISTRY_PASSWORD, password)} :
       \E c5 \in {Replace(c4, TOK_REGISTRY_IMAGE_LOCATION, image_location)} :
          /\ contents' = c5
          /\ deployment_json' = IF deployment_json = NoFile THEN c5
                                ELSE deployment_json \o c5
    /\ overwrote' = FALSE
    /\ pc' = "push"
    /\ UNCHANGED <<tmplVars, error, scoreVars, az_result, pushed, containers,
                   pollVars, logVars>>

(* Lines 592-600: read the template, make the five replace calls one     *)
(* after the other (c1..c5 are the successive values of contents), write  *)
(* ./deployment.json (mode 'wt' truncates).  The cell prints nothing and  *)
(* tests nothing.                                                         *)
TemplatingCell ==
    /\ pc = "template"
    /\ \E c1 \in {Replace(template, TOK_MODULE_NAME, module_name)} :
       \E c2 \in {Replace(c1, TOK_REGISTRY_NAME, reg_name)} :
       \E c3 \in {Replace(c2, TOK_REGISTRY_USER_NAME, username)} :
       \E c4 \in {Replace(c3, TOK_REGISTRY_PASSWORD, password)} :
       \E c5 \in {Replace(c4, TOK_REGISTRY_IMAGE_LOCATION, image_location)} :
          /\ contents' = c5
          /\ deployment_json' = c5
    /\ overwrote' = (deployment_json # NoFile)
    /\ pc' = "push"
    /\ UNCHANGED <<tmplVars, error, scoreVars, az_result, pushed, containers,
                   pollVars, logVars>>

(* Lines 609-612: az iot edge set-modules --content deployment.json.  A   *)
(* shell escape: a failing command only prints, the notebook goes on.     *)
PushCell ==
    /\ pc = "push"
    /\ \/ /\ az_result' = "ok"
          /\ pushed' = deployment_json
       \/ /\ az_result' = "failed"
          /\ pushed' = pushed
    /\ pc' = "docker_logs"
    /\ UNCHANGED <<tmplVars, overwrote, error, scoreVars, contents, deployment_json, containers,
                   pollVars, logVars>>

(* Line 633: docker logs -f $module_name, a shell escape: docker prints  *)
(* "No such container" or follows the log until it is interrupted.  No   *)
(* notebook variable, file or container changes.                         *)
DockerLogsCell ==
    /\ pc = "docker_logs"
    /\ pc' = "poll_first"
    /\ UNCHANGED <<tmplVars, overwrote, error, scoreVars, contents,
                   deployment_json, az_result, pushed,
                   containers, pollVars, logVars>>

Bump(n) ==
    IF n < MaxAttempts THEN n + 1 ELSE n

(* Line 656: d_id = get_id(module_name) *)
(* An exception raised inside get_id leaves the assignment undone and     *)
(* stops the cell.                                                        *)
PollFirst ==
    /\ pc = "poll_first"
    /\ \E r \in {get_id(containers, module_name)} :
          IF r = IndexError
          THEN d_id' = d_id /\ error' = r /\ pc' = "raised"
          ELSE d_id' = r /\ error' = error /\ pc' = "while"
    /\ attempts' = Bump(attempts)
    /\ slept' = FALSE
    /\ UNCHANGED <<tmplVars, overwrote, scoreVars, contents,
                   deployment_json, az_result, pushed,
                   containers, logVars>>

(* Line 657: while d_id is None *)
(* A loop that does not test d_id. *)
LoopExit_always(d) ==
    TRUE

(* A loop that gives up after MaxAttempts calls. *)
LoopExit_bounded(d) ==
    d # None \/ attempts >= MaxAttempts

LoopExit(d) ==
    d # None

WhileTest ==
    /\ pc = "while"
    /\ pc' = IF LoopExit(d_id) THEN "ATTACHING" ELSE "poll_body"
    /\ UNCHANGED <<tmplVars, overwrote, error, scoreVars, contents,
                   deployment_json, az_result, pushed,
                   containers, pollVars, logVars>>

(* Line 658: d_id = get_id(module_name) *)
(* A discovery that removes from the runtime the containers it rejected. *)
PollBody_pruning ==
    /\ pc = "poll_body"
    /\ \E r \in {get_id(containers, module_name)} :
          IF r = IndexError
          THEN d_id' = d_id /\ error' = r /\ pc' = "raised"
          ELSE d_id' = r /\ error' = error /\ pc' = "sleep"
    /\ containers' = SelectSeq(containers,
                         LAMBDA c : Contains(module_name, c.Names[1]))
    /\ attempts' = Bump(attempts)
    /\ slept' = FALSE
    /\ UNCHANGED <<tmplVars, overwrote, scoreVars, contents, deployment_json,
                   az_result, pushed, logVars>>

PollBody ==
    /\ pc = "poll_body"
    /\ \E r \in {get_id(containers, module_name)} :
          IF r = IndexError
          THEN d_id' = d_id /\ error' = r /\ pc' = "raised"
          ELSE d_id' = r /\ error' = error /\ pc' = "sleep"
    /\ attempts' = Bump(attempts)
    /\ slept' = FALSE
    /\ UNCHANGED <<tmplVars, overwrote, scoreVars, contents,
                   deployment_json, az_result, pushed,
                   containers, logVars>>

(* Line 659: time.sleep(1) *)
Sleep ==
    /\ pc = "sleep"
    /\ slept' = TRUE
    /\ pc' = "while"
    /\ UNCHANGED <<tmplVars, overwrote, error, scoreVars, contents,
                   deployment_json, az_result, pushed,
                   containers, d_id, attempts, logVars>>

(* Line 668: logs = docker_client.attach(d_id, stream=True, logs=True) *)
AttachCell ==
    /\ pc = "ATTACHING"
    /\ logs' = d_id
    /\ pc' = "STREAMING"
    /\ UNCHANGED <<tmplVars, overwrote, error, scoreVars, contents,
                   deployment_json, az_result, pushed,
                   containers, pollVars, produced, stream_open,
                   consumed, msg, stdout, waited>>

(* Lines 678-682: one turn of "for l in logs".  The generator yields the  *)
(* next chunk when there is one, ends the loop when the stream is closed  *)
(* and drained, and blocks otherwise.  A yielded chunk is decoded, printed *)
(* and tested for the marker; break leaves the loop.                      *)
(* The marker named by the comment of the cell (line 677). *)
TfMarker ==
    <<"U", "s", "i", "n", "g", " ", "T", "e", "n", "s", "o", "r", "F", "l",
      "o", "w", " ", "b", "a", "c", "k", "e", "n", "d">>

(* The test the comment describes. *)
WaitExit_tf(m) ==
    Contains(TfMarker, m)

WaitExit(m) ==
    Contains(Marker, m)

(* A loop without its break: it goes on taking chunks after the marker. *)
WaitNext_nobreak ==
    /\ pc \in {"STREAMING", "READY"}
    /\ consumed < Len(produced)
    /\ consumed' = consumed + 1
    /\ msg' = decode(produced[consumed + 1])
    /\ stdout' = Append(stdout, msg')
    /\ pc' = IF WaitExit(msg') THEN "READY" ELSE pc
    /\ UNCHANGED <<tmplVars, overwrote, error, scoreVars, contents,
                   deployment_json, az_result, pushed,
                   containers, pollVars, logs, produced,
                   stream_open, waited>>

WaitNext ==
    /\ pc = "STREAMING"
    /\ consumed < Len(produced)
    /\ consumed' = consumed + 1
    /\ msg' = decode(produced[consumed + 1])
    /\ stdout' = Append(stdout, msg')
    /\ pc' = IF WaitExit(msg') THEN "READY" ELSE "STREAMING"
    /\ UNCHANGED <<tmplVars, overwrote, error, scoreVars, contents,
                   deployment_json, az_result, pushed,
                   containers, pollVars, logs, produced,
                   stream_open, waited>>

(* A stream that ends as soon as it is closed, unread chunks dropped. *)
WaitEnd_undrained ==
    /\ pc = "STREAMING"
    /\ ~stream_open
    /\ pc' = "STREAM_CLOSED"
    /\ UNCHANGED <<tmplVars, overwrote, error, scoreVars, contents,
                   deployment_json, az_result, pushed,
                   containers, pollVars, logVars>>

WaitEnd ==
    /\ pc = "STREAMING"
    /\ consumed = Len(produced)
    /\ ~stream_open
    /\ pc' = "STREAM_CLOSED"
    /\ UNCHANGED <<tmplVars, overwrote, error, scoreVars, contents,
                   deployment_json, az_result, pushed,
                   containers, pollVars, logVars>>

(* The loop is blocked in the generator: a second goes by, nothing else.  *)
(* A wait that gives up after one second without a chunk. *)
WaitBlocked_timeout ==
    /\ pc = "STREAMING"
    /\ consumed = Len(produced)
    /\ stream_open
    /\ IF waited < 1
       THEN waited' = waited + 1 /\ pc' = pc
       ELSE waited' = waited /\ pc' = "STREAM_CLOSED"
    /\ UNCHANGED <<tmplVars, overwrote, error, scoreVars, contents,
                   deployment_json, az_result, pushed,
                   containers, pollVars, logs, produced,
                   stream_open, consumed, msg, stdout>>

WaitBlocked ==
    /\ pc = "STREAMING"
    /\ consumed = Len(produced)
    /\ stream_open
    /\ waited < MaxWait
    /\ waited' = waited + 1
    /\ UNCHANGED <<pc, tmplVars, overwrote, error, scoreVars, contents,
                   deployment_json, az_result, pushed,
                   containers, pollVars, logs, produced,
                   stream_open, consumed, msg, stdout>>

(***************************************************************************)
(* The environment: the container runtime and the module's output.         *)
(***************************************************************************)
PollPhase ==
    {"docker_logs", "poll_first", "while", "poll_body", "sleep"}
LogPhase ==
    {"ATTACHING", "STREAMING", "READY", "STREAM_CLOSED"}

(* Containers start and stop while the notebook looks for the module. *)
EnvContainers ==
    /\ pc \in PollPhase
    /\ containers' \in DeviceListings \ {containers}
    /\ UNCHANGED <<pc, tmplVars, overwrote, error, scoreVars, contents,
                   deployment_json, az_result, pushed,
                   pollVars, logVars>>

(* The discovered container writes a chunk to its output. *)
EnvEmit ==
    /\ pc \in LogPhase
    /\ stream_open
    /\ Len(produced) < MaxLines
    /\ \E l \in Lines : produced' = Append(produced, l)
    /\ UNCHANGED <<pc, tmplVars, overwrote, error, scoreVars, contents,
                   deployment_json, az_result, pushed,
                   containers, pollVars, logs, stream_open,
                   consumed, msg, stdout, waited>>

(* The discovered container exits or closes its output. *)
EnvClose ==
    /\ pc \in LogPhase
    /\ stream_open
    /\ stream_open' = FALSE
    /\ UNCHANGED <<pc, tmplVars, overwrote, error, scoreVars, contents,
                   deployment_json, az_result, pushed,
                   containers, pollVars, logs, produced, consumed,
                   msg, stdout, waited>>

(***************************************************************************)
(* Step 4 of the notebook: the scoring cells (lines 755-815).              *)
(*                                                                         *)
(* The service answers a POST with a JSON document that is one string,     *)
(* and the string is the Python literal of a list of [id_a, id_b, score]   *)
(* lists (the output of the cell of line 777 shows it).  An id is a        *)
(* natural number; a score is a float below one, kept here to one decimal  *)
(* as [tenths |-> d].                                                      *)
(***************************************************************************)
ConnectionError ==
    "ConnectionError"
JSONDecodeError ==
    "JSONDecodeError"

(* Line 787: dupes_test.iloc[:5,4] *)
NumTexts ==
    5

(* Line 815: [0:3] *)
TopN ==
    3

DigitChars ==
    <<"0", "1", "2", "3", "4", "5", "6", "7", "8", "9">>

DQ ==
    <<"\"">>

(* The literal Python writes for a natural number and for a float. *)
RECURSIVE IntStr(_)
IntStr(n) ==
    IF n < 10 THEN <<DigitChars[n + 1]>>
    ELSE IntStr(n \div 10) \o <<DigitChars[(n % 10) + 1]>>

FloatStr(f) ==
    IntStr(f.tenths \div 10) \o <<".">> \o IntStr(f.tenths % 10)

RECURSIVE Join(_, _)
Join(ps, sep) ==
    IF ps = <<>> THEN <<>>
    ELSE IF Len(ps) = 1 THEN ps[1]
         ELSE ps[1] \o sep \o Join(Tail(ps), sep)

TripleStr(t) ==
    <<"[">> \o IntStr(t[1]) \o <<",", " ">> \o IntStr(t[2]) \o <<",", " ">>
            \o FloatStr(t[3]) \o <<"]">>

ListStr(l) ==
    <<"[">> \o Join([k \in DOMAIN l |-> TripleStr(l[k])], <<",", " ">>) \o <<"]">>

(* The body of a 200 answer: the list literal as a JSON string (no        *)
(* character of the literal needs an escape).                            *)
ServerBody(l) ==
    DQ \o ListStr(l) \o DQ

(* The body of an answer with an error status: not a JSON document. *)
ErrBody ==
    <<"I", "n", "t", "e", "r", "n", "a", "l", " ", "S", "e", "r", "v", "e", "r",
      " ", "E", "r", "r", "o", "r">>

(* Line 777: response.content.decode('ascii'): every byte of a body is an *)
(* ASCII character and decodes to itself; the two bytes of a UTF-8        *)
(* sequence are not ASCII.                                                *)
decode_ascii(b) ==
    IF \E i \in DOMAIN b : b[i] \in {"xC3", "xA9"}
    THEN "UnicodeDecodeError"
    ELSE b

(* Lines 777 and 815: json.loads and Response.json() of a body: the       *)
(* content of a JSON string, JSONDecodeError for a text that is not a     *)
(* JSON document.                                                         *)
json_loads(b) ==
    IF Len(b) >= 2 /\ b[1] = "\"" /\ b[Len(b)] = "\""
    THEN SubSeq(b, 2, Len(b) - 1)
    ELSE JSONDecodeError

RECURSIVE SplitFrom(_, _, _)
SplitFrom(s, sep, i) ==
    LET j == Find(s, sep, i)
    IN  IF j = 0 THEN <<SubSeq(s, i, Len(s))>>
        ELSE <<SubSeq(s, i, j - 1)>> \o SplitFrom(s, sep, j + Len(sep))

DigitVal(c) ==
    CHOOSE d \in 0..9 : DigitChars[d + 1] = c

RECURSIVE ParseInt(_)
ParseInt(ds) ==
    IF ds = <<>> THEN 0
    ELSE ParseInt(SubSeq(ds, 1, Len(ds) - 1)) * 10 + DigitVal(ds[Len(ds)])

ParseNum(tok) ==
    LET p == Find(tok, <<".">>, 1)
    IN  IF p = 0 THEN ParseInt(tok)
        ELSE [tenths |-> ParseInt(SubSeq(tok, 1, p - 1)) * 10
                           + ParseInt(SubSeq(tok, p + 1, Len(tok)))]

ParseItems(s) ==
    LET toks == SplitFrom(s, <<",", " ">>, 1)
    IN  [k \in DOMAIN toks |-> ParseNum(toks[k])]

(* A client that orders what it parsed by descending score. *)
eval_sorted(s) ==
    LET inner == SubSeq(s, 2, Len(s) - 1)
        items == SplitFrom(SubSeq(inner, 2, Len(inner) - 1),
                           <<"]", ",", " ", "[">>, 1)
        l     == IF inner = <<>> THEN <<>>
                 ELSE [k \in DOMAIN items |-> ParseItems(items[k])]
        rank(k) == Cardinality({j \in DOMAIN l :
                      \/ l[j][3].tenths > l[k][3].tenths
                      \/ l[j][3].tenths = l[k][3].tenths /\ j < k})
    IN  [r \in DOMAIN l |-> l[CHOOSE k \in DOMAIN l : rank(k) = r - 1]]

(* Line 815: eval of the list literal: the outer brackets hold the inner  *)
(* lists, separated by ", ", each a bracketed sequence of numbers.        *)
eval(s) ==
    LET inner == SubSeq(s, 2, Len(s) - 1)
        items == SplitFrom(SubSeq(inner, 2, Len(inner) - 1),
                           <<"]", ",", " ", "[">>, 1)
    IN  IF inner = <<>> THEN <<>>
        ELSE [k \in DOMAIN items |-> ParseItems(items[k])]

(* l[a:b] for 0 <= a <= b *)
Slice(l, a, b) ==
    SubSeq(l, a + 1, IF b < Len(l) THEN b ELSE Len(l))

ScorePhase ==
    {"post", "decode", "results", "top3", "done"}

(* What a POST can meet: an answer with the ranking, an answer with an    *)
(* error status, no answer at all (requests raises ConnectionError).      *)
Outcomes ==
    {"ok", "http_error", "refused"}

Body(o) ==
    IF o = "ok" THEN ServerBody(ranking) ELSE ErrBody

(* Lines 755-756: headers = ...; response = requests.post(scoring_url,    *)
(* data=jsontext, headers=headers): one request for the first text.       *)
PostCell ==
    /\ pc = "post"
    /\ posted' = Append(posted, <<"response", 0>>)
    /\ \E o \in Outcomes :
          IF o = "refused"
          THEN response' = response /\ error' = ConnectionError /\ pc' = "raised"
          ELSE response' = Body(o) /\ error' = error /\ pc' = "decode"
    /\ UNCHANGED <<tmplVars, contents, deployment_json, az_result, pushed,
                   containers, pollVars, logVars, overwrote, ranking,
                   prediction, acc, results, top3>>

(* Line 777: prediction = json.loads(response.content.decode('ascii')) *)
DecodeCell ==
    /\ pc = "decode"
    /\ \E r \in {json_loads(decode_ascii(response))} :
          IF r = JSONDecodeError
          THEN prediction' = prediction /\ error' = r /\ pc' = "raised"
          ELSE prediction' = r /\ error' = error /\ pc' = "results"
    /\ UNCHANGED <<tmplVars, contents, deployment_json, az_result, pushed,
                   containers, pollVars, logVars, overwrote, ranking,
                   response, acc, results, top3, posted>>

(* A comprehension that posts a text again when the request fails. *)
ResultsNext_retry ==
    /\ pc = "results"
    /\ posted' = Append(posted, <<"results", Len(acc)>>)
    /\ \E o \in Outcomes :
          IF o = "refused"
          THEN UNCHANGED <<acc, results, error, pc>>
          ELSE /\ acc' = Append(acc, Body(o))
               /\ results' = IF Len(acc') = NumTexts THEN acc' ELSE results
               /\ pc' = IF Len(acc') = NumTexts THEN "top3" ELSE "results"
               /\ error' = error
    /\ UNCHANGED <<tmplVars, contents, deployment_json, az_result, pushed,
                   containers, pollVars, logVars, overwrote, ranking,
                   response, prediction, top3>>

(* Lines 787-799: one turn of the comprehension over the first NumTexts   *)
(* texts: post text number Len(acc), keep the answer; results is assigned *)
(* when the last text has been posted, and not at all when a post raises. *)
ResultsNext ==
    /\ pc = "results"
    /\ posted' = Append(posted, <<"results", Len(acc)>>)
    /\ \E o \in Outcomes :
          IF o = "refused"
          THEN /\ UNCHANGED <<acc, results>>
               /\ error' = ConnectionError
               /\ pc' = "raised"
          ELSE /\ acc' = Append(acc, Body(o))
               /\ results' = IF Len(acc') = NumTexts THEN acc' ELSE results
               /\ pc' = IF Len(acc') = NumTexts THEN "top3" ELSE "results"
               /\ error' = error
    /\ UNCHANGED <<tmplVars, contents, deployment_json, az_result, pushed,
                   containers, pollVars, logVars, overwrote, ranking,
                   response, prediction, top3>>

(* Line 815: [eval(results[i].json())[0:3] for i in range(0, len(results))] *)
Top3Cell ==
    /\ pc = "top3"
    /\ \E js \in {[i \in DOMAIN results |-> json_loads(results[i])]} :
          IF \E i \in DOMAIN js : js[i] = JSONDecodeError
          THEN top3' = top3 /\ error' = JSONDecodeError /\ pc' = "raised"
          ELSE /\ top3' = [i \in DOMAIN js |-> Slice(eval(js[i]), 0, TopN)]
               /\ error' = error
               /\ pc' = "done"
    /\ UNCHANGED <<tmplVars, contents, deployment_json, az_result, pushed,
                   containers, pollVars, logVars, overwrote, ranking,
                   response, prediction, acc, results, posted>>

NextScore ==
    \/ PostCell
    \/ DecodeCell
    \/ ResultsNext
    \/ Top3Cell

SpecScore ==
    InitScore /\ [][NextScore]_vars

Next ==
    \/ TemplatingCell
    \/ PushCell
    \/ DockerLogsCell
    \/ PollFirst
    \/ WhileTest
    \/ PollBody
    \/ Sleep
    \/ AttachCell
    \/ WaitNext
    \/ WaitEnd
    \/ WaitBlocked
    \/ EnvContainers
    \/ EnvEmit
    \/ EnvClose

Spec ==
    Init /\ [][Next]_vars

(* The notebook runs its cells one after the other and every loop step it *)
(* can take it takes; the environment owes nothing.                       *)
Notebook ==
    \/ TemplatingCell
    \/ PushCell
    \/ DockerLogsCell
    \/ PollFirst
    \/ WhileTest
    \/ PollBody
    \/ Sleep
    \/ AttachCell
    \/ WaitNext
    \/ WaitEnd

FairSpec ==
    Init /\ [][Next]_vars /\ WF_vars(Notebook)

NextTmpl ==
    TemplatingCell

SpecTmpl ==
    InitTmpl /\ [][NextTmpl]_vars

NextGetId ==
    PollFirst

SpecGetId ==
    InitGetId /\ [][NextGetId]_vars

SpecGetIdAny ==
    InitGetIdAny /\ [][NextGetId]_vars

(* The discovery loop of lines 656-659 alone, over a listing that does    *)
(* not change.                                                           *)
NextPoll ==
    \/ PollFirst
    \/ WhileTest
    \/ PollBody
    \/ Sleep

SpecPoll ==
    InitGetId /\ [][NextPoll]_vars

TypeOK ==
    /\ pc \in {"template", "push", "raised"} \cup PollPhase \cup LogPhase
                \cup ScorePhase
    /\ error \in {None, IndexError, ConnectionError, JSONDecodeError}
    /\ d_id \in Ids \cup {None}
    /\ logs \in Ids \cup {None}
    /\ attempts \in 0..MaxAttempts
    /\ consumed \in 0..Len(produced)
    /\ Len(produced) <= MaxLines
    /\ waited \in 0..MaxWait

(***************************************************************************)
(* Container discovery.                                                    *)
(***************************************************************************)
Least(S) ==
    CHOOSE i \in S : \A k \in S : i <= k

(* Positions of the records whose first name contains the target. *)
FirstNameHits(listing, target) ==
    {i \in DOMAIN listing : Contains(target, listing[i].Names[1])}

(* Positions of the records one of whose names contains the target. *)
AnyNameHits(listing, target) ==
    {i \in DOMAIN listing :
        \E j \in DOMAIN listing[i].Names : Contains(target, listing[i].Names[j])}

(* C1 as stated: get_id returns the Id of the first record, in listing    *)
(* order, that has a name containing the target, and None when no record  *)
(* has such a name.                                                       *)
C1_AnyNameFirstMatch ==
    pc = "while" =>
        LET hits == AnyNameHits(containers, module_name)
        IN  IF hits = {} THEN d_id = None
            ELSE d_id = containers[Least(hits)].Id

(* C1 amended: get_id returns the Id of the first record, in listing      *)
(* order, whose first name (Names[0]) contains the target, and None when  *)
(* no record's first name contains it.                                    *)
C1_FirstNameFirstMatch ==
    pc = "while" =>
        LET hits == FirstNameHits(containers, module_name)
        IN  IF hits = {} THEN d_id = None
            ELSE d_id = containers[Least(hits)].Id

(* The example of the claim: [edgeAgent a1, mymodule_1 b2], 'mymodule'. *)
C1_Witness ==
    /\ pc = "while"
    /\ containers = <<R_edgeAgent, R_mymodule_1>>
    /\ module_name = S_mymodule
    /\ d_id = "b2"
(***************************************************************************)
(* Readiness wait.                                                         *)
(***************************************************************************)
MarkerAt(i) ==
    Contains(Marker, decode(produced[i]))

NoMarkerProduced ==
    \A i \in DOMAIN produced : ~MarkerAt(i)

(* C2: when the stream holds a first chunk with the marker the wait ends  *)
(* in READY, and in READY the loop has consumed the chunks up to and      *)
(* including that first marker chunk and none after it.                   *)
C2_ReadyAtFirstMarker ==
    /\ [](pc = "READY" =>
            /\ consumed \in DOMAIN produced
            /\ MarkerAt(consumed)
            /\ \A i \in 1..(consumed - 1) : ~MarkerAt(i)
            /\ Len(stdout) = consumed)
    /\ ((pc = "STREAMING" /\ ~NoMarkerProduced) ~> pc = "READY")

(* One chunk without the marker, then the marker chunk. *)
C2_Witness ==
    /\ pc = "READY"
    /\ consumed = 2
    /\ ~MarkerAt(1)
    /\ MarkerAt(2)

(* C3: when the stream is closed and holds no chunk with the marker the   *)
(* wait consumes every chunk and ends in STREAM_CLOSED, which it never    *)
(* leaves for READY.                                                      *)
C3_StreamClosedAfterAll ==
    /\ [](pc = "STREAM_CLOSED" =>
            /\ ~stream_open
            /\ consumed = Len(produced)
            /\ Len(stdout) = Len(produced)
            /\ NoMarkerProduced)
    /\ [][pc = "STREAM_CLOSED" => pc' = "STREAM_CLOSED"]_vars
    /\ ((pc = "STREAMING" /\ ~stream_open /\ NoMarkerProduced)
           ~> pc = "STREAM_CLOSED")

C3_Witness ==
    /\ pc = "STREAM_CLOSED"
    /\ consumed = 2
    /\ NoMarkerProduced

(***************************************************************************)
(* Deployment descriptor templating.                                       *)
(***************************************************************************)
EveryKeyOccurs ==
    \A k \in DOMAIN Tokens : Contains(Tokens[k], template)

(* The mapping of the cell, in the order of Tokens. *)
Mapping ==
    <<module_name, reg_name, username, password, image_location>>

(* One simultaneous substitution: at each position of the template, from  *)
(* left to right, a placeholder found there is replaced by its value and  *)
(* the scan goes on after it; substituted text is never looked at again.  *)
RECURSIVE SimultaneousFrom(_, _, _)
SimultaneousFrom(s, vals, i) ==
    LET found == {k \in DOMAIN Tokens : Find(s, Tokens[k], i) # 0}
    IN  IF found = {}
        THEN SubSeq(s, i, Len(s))
        ELSE LET k == CHOOSE a \in found : \A b \in found :
                          Find(s, Tokens[a], i) <= Find(s, Tokens[b], i)
                 j == Find(s, Tokens[k], i)
             IN  SubSeq(s, i, j - 1) \o vals[k]
                   \o SimultaneousFrom(s, vals, j + Len(Tokens[k]))

(* C4: when every placeholder occurs in the template (all values being    *)
(* non-empty), the emitted deployment.json contains no placeholder token. *)
C4_NoPlaceholderLeft ==
    (pc = "push" /\ EveryKeyOccurs /\ \A k \in DOMAIN Mapping : Mapping[k] # <<>>)
        => \A k \in DOMAIN Tokens : ~Contains(Tokens[k], deployment_json)

(* C5: the emitted document is the template with every placeholder        *)
(* replaced by its value in one simultaneous substitution.                *)
C5_SimultaneousSubstitution ==
    pc = "push" => deployment_json = SimultaneousFrom(template, Mapping, 1)

(* C6: when a placeholder of the mapping does not occur in the template,  *)
(* the templating cell surfaces a warning.                                *)
C6_StaleTemplateWarns ==
    (pc = "push" /\ ~EveryKeyOccurs) => stdout # <<>>

(***************************************************************************)
(* Discovery poll loop.                                                    *)
(***************************************************************************)
ModuleListedByFirstName ==
    FirstNameHits(containers, module_name) # {}

ModuleListedByAnyName ==
    AnyNameHits(containers, module_name) # {}

(* C7 as stated: a sleep separates any two get_id attempts, the loop is   *)
(* left only with an identifier in d_id, and the loop is left eventually  *)
(* once a container with a name containing module_name stays listed.      *)
C7_SleepBetweenAttempts ==
    /\ [](pc = "poll_body" => slept)
    /\ [](pc \in LogPhase => d_id \in Ids)
    /\ (<>[]ModuleListedByAnyName => <>(pc \in LogPhase))

(* C7 amended: every in-loop attempt is followed by a one-second sleep    *)
(* (the first in-loop attempt follows the call before the loop at once),  *)
(* the loop is left only with an identifier that get_id returned in d_id, *)
(* and the loop is left eventually once a container whose first name      *)
(* contains module_name stays listed.                                     *)
C7_PollUntilFound ==
    /\ []((attempts >= 2 /\ pc # "sleep") => slept)
    /\ [](pc \in LogPhase => d_id \in Ids)
    /\ [][d_id' # d_id => d_id' = get_id(containers, module_name)]_vars
    /\ (<>[]ModuleListedByFirstName => <>(pc \in LogPhase))

(* The loop was left after an attempt made inside it. *)
C7_Witness ==
    /\ pc = "ATTACHING"
    /\ attempts >= 2
    /\ slept
    /\ d_id \in Ids

(* C8: while no listed container matches module_name the loop is never    *)
(* left, whatever the number of attempts made.                            *)
C8_UnboundedPoll ==
    [](~ModuleListedByFirstName) => [](pc \notin LogPhase)

(* The attempt counter is at its cap and one more attempt is coming. *)
C8_Witness ==
    /\ pc = "poll_body"
    /\ attempts = MaxAttempts
    /\ d_id = None

(* C9: while the stream stays open and delivers no chunk with the marker  *)
(* the wait reaches neither READY nor STREAM_CLOSED, however long it has  *)
(* waited.                                                                *)
C9_NoTimeout ==
    [](stream_open /\ NoMarkerProduced)
        => [](pc \notin {"READY", "STREAM_CLOSED"})

C9_Witness ==
    /\ pc = "STREAMING"
    /\ stream_open
    /\ NoMarkerProduced
    /\ consumed = Len(produced)
    /\ waited = MaxWait

(***************************************************************************)
(* Order of the deployment steps.                                          *)
(***************************************************************************)

(* C10: the push is run only once deployment.json holds the templated     *)
(* descriptor, get_id is called only after the push was run, and the log  *)
(* stream is attached and read only once d_id holds an identifier.        *)
C10_FixedOrder ==
    /\ az_result # "not_run" =>
           deployment_json = Templated(template, module_name, reg_name,
                                       username, password, image_location)
    /\ pushed # NoFile => pushed = deployment_json
    /\ attempts > 0 => az_result # "not_run"
    /\ pc \in LogPhase => d_id \in Ids /\ attempts > 0
    /\ (logs # None \/ consumed > 0) =>
           pc \in {"STREAMING", "READY", "STREAM_CLOSED"} /\ logs = d_id

C10_Witness ==
    /\ pc = "READY"
    /\ az_result = "ok"
    /\ pushed = deployment_json
    /\ logs = d_id

(***************************************************************************)
(* C11.  For every list of container records, the empty list and records  *)
(* with any Names field included, a get_id call returns one identifier or *)
(* the sentinel None and never raises.                                    *)
(***************************************************************************)
C11_NeverRaises ==
    /\ pc # "raised"
    /\ error = None
    /\ pc = "while" => d_id \in {r.Id : r \in AnyRecords} \cup {None}

(***************************************************************************)
(* C12.  Discovery is idempotent and read-only: a get_id call changes     *)
(* nothing in the container runtime, in the files or in the notebook's    *)
(* variables other than the one its result is assigned to, and a second   *)
(* call with the same target over the same listing returns what the first *)
(* returned.                                                              *)
(***************************************************************************)
C12_ReadOnlyIdempotent ==
    [][(pc \in {"poll_first", "poll_body"}) =>
          (containers' = containers
           /\ UNCHANGED <<tmplVars, contents, deployment_json, az_result,
                          pushed, logVars, overwrote, scoreVars>>
           /\ (pc = "poll_body" => d_id' = d_id))]_vars

(* A second call has returned over a listing that holds a container. *)
C12_Witness ==
    /\ pc = "sleep"
    /\ attempts = 2
    /\ containers # <<>>
    /\ d_id = None

(***************************************************************************)
(* C13.  The scoring round trip preserves the service's order: decoding   *)
(* the answer (the JSON string, then the list literal in it) gives the    *)
(* triples of the service's list, in its order, and each "top 3" shown is *)
(* the first three triples of that list.                                  *)
(***************************************************************************)
C13_ServerOrderKept ==
    /\ (pc \in {"results", "top3", "done"} => eval(prediction) = ranking)
    /\ (pc = "done" =>
           /\ Len(top3) = NumTexts
           /\ \A i \in DOMAIN top3 :
                 /\ Len(top3[i]) = (IF Len(ranking) < TopN THEN Len(ranking)
                                     ELSE TopN)
                 /\ \A k \in DOMAIN top3[i] : top3[i][k] = ranking[k])

(* Every text answered with a list of four triples that is not in         *)
(* descending order of score.                                             *)
C13_Witness ==
    /\ pc = "done"
    /\ Len(ranking) = 4
    /\ ranking[1][3].tenths < ranking[2][3].tenths
    /\ top3[NumTexts] = <<ranking[1], ranking[2], ranking[3]>>

(***************************************************************************)
(* C14.  No scoring request is retried: every requests.post call of the   *)
(* two cells puts exactly one POST on the wire, and a request that fails  *)
(* stops the run with its exception: no second POST for it, no value      *)
(* bound in its place.                                                    *)
(***************************************************************************)
PostCalls ==
    (IF pc = "post" THEN 0 ELSE 1) + Len(acc)
        + (IF error = ConnectionError /\ response # None THEN 1 ELSE 0)

C15_TensorFlowEndsWait ==
    /\ (pc = "STREAMING" =>
           \A i \in 1..consumed : ~Contains(TfMarker, decode(produced[i])))
    /\ (pc = "READY" => Contains(TfMarker, msg))

(***************************************************************************)
(* C16.  The readiness wait follows only the state machine ATTACHING ->   *)
(* STREAMING -> READY or STREAM_CLOSED: READY is entered only by          *)
(* consuming a line that contains the marker, STREAM_CLOSED only when the *)
(* stream has ended and no consumed line had the marker; in READY and in  *)
(* STREAM_CLOSED no line is consumed and no transition is taken; READY is *)
(* never reached unless a consumed line contained the marker.             *)
(***************************************************************************)
WaitStep ==
    /\ (pc = "ATTACHING" => pc' \in {"ATTACHING", "STREAMING"})
    /\ (pc' = "STREAMING" => pc \in {"ATTACHING", "STREAMING"})
    /\ (pc = "STREAMING" => pc' \in {"STREAMING", "READY", "STREAM_CLOSED"})
    /\ (pc = "STREAMING" /\ pc' = "READY" =>
           /\ consumed' = consumed + 1
           /\ msg' = decode(produced[consumed'])
           /\ Contains(Marker, msg'))
    /\ (pc = "STREAMING" /\ pc' = "STREAM_CLOSED" =>
           /\ ~stream_open
           /\ consumed = Len(produced)
           /\ NoMarkerProduced)
    /\ (pc' \in {"READY", "STREAM_CLOSED"} => pc \in {"STREAMING", pc'})
    /\ (pc \in {"READY", "STREAM_CLOSED"} =>
           /\ pc' = pc
           /\ UNCHANGED <<consumed, msg, stdout, logs, d_id>>)

C16_WaitStateMachine ==
    /\ [][WaitStep]_vars
    /\ [](pc = "READY" => \E i \in 1..consumed : MarkerAt(i))

(* READY, with a line written after the marker line and left unread. *)
C16_Witness ==
    /\ pc = "READY"
    /\ consumed = 1
    /\ Len(produced) = 2

(***************************************************************************)
(* C17.  The templating step has no effect but on ./deployment.json:      *)
(* after it the file holds exactly the document just produced, whatever   *)
(* it held before, and the template file, the substituted variables and   *)
(* everything outside the notebook are as they were.                      *)
(***************************************************************************)
TemplatingStep ==
    pc = "template" =>
        /\ deployment_json' = Templated(template, module_name, reg_name,
                                        username, password, image_location)
        /\ UNCHANGED <<tmplVars, az_result, pushed, containers, pollVars,
                       logVars, error, scoreVars>>

C17_OnlyOutputFileWritten ==
    [][TemplatingStep]_vars

(* The step has run over a file left by an earlier run. *)
C17_Witness ==
    /\ pc = "push"
    /\ overwrote
    /\ deployment_json = contents
    /\ deployment_json # S_old

(***************************************************************************)
(* C18.  get_id tests the target against the first entry of Names only:   *)
(* the identifier it returns is that of a container whose first name      *)
(* contains the target, and while no container's first name contains it   *)
(* every call of the discovery loop returns None and the loop goes on,    *)
(* whatever the other names of the containers are.                        *)
(***************************************************************************)
C18_FirstNameOnly ==
    /\ (d_id # None =>
           \E i \in DOMAIN containers :
              /\ containers[i].Id = d_id
              /\ Contains(module_name, containers[i].Names[1]))
    /\ (FirstNameHits(containers, module_name) = {} =>
           d_id = None /\ pc \in PollPhase)

(* The loop has called again and slept over a listing whose only          *)
(* container carries the target in its second name.                       *)
C18_Witness ==
    /\ containers = <<R_linked>>
    /\ module_name = S_mymodule
    /\ AnyNameHits(containers, module_name) # {}
    /\ pc = "while"
    /\ attempts >= 2
    /\ slept
    /\ d_id = None

=============================================================================
